---- MODULE Spec2Model ----
(***************************************************************************)
(* A model of the SSD1306 OLED driver of mt32-pi (src/ssd1306.cpp).        *)
(*                                                                         *)
(* The state is the CSSD1306 object (height, bus address, message overlay, *)
(* the three per-part meter arrays and the framebuffer) together with what *)
(* an observer of one call sees: the I2C transactions the call issued, its *)
(* return value, and the object as it was when the call started.           *)
(* Bytes are naturals in 0..255 and every u8 operation keeps its width.    *)
(***************************************************************************)
EXTENDS Integers, Sequences, FiniteSets

(***************************************************************************)
(* Bounds of the model                                                     *)
(***************************************************************************)
\* Number of calls made on the object in one run of Spec
MaxCalls == 2
\* Number of SetMessage, ClearMessage and Update calls in one run of SpecOverlay
MaxOverlayCalls == 4
\* Number of calls in one run of SpecPixel
MaxPixelCalls == 3
\* Number of Update calls in one run of SpecDecay (one with a part playing, the
\* rest with no part playing)
MaxTicks == 180

\* Number of Update calls in one run of SpecMeter
MaxMeterCalls == 4

\* Number of Update calls in one run of SpecFade
MaxFadeTicks == 175

(***************************************************************************)
(* u8 / u16 arithmetic                                                     *)
(***************************************************************************)
\* 1 << n.  A shift by a negative count is undefined in C++; the driver makes none
\* as long as levels and peaks are at most 16.
Pow2(n) == IF n < 0 THEN 0 ELSE 2 ^ n

\* (v >> n) & 1
Bit(v, n) == (v \div Pow2(n)) % 2

\* v << n, on int
Shl(v, n) == v * Pow2(n)

\* Conversion of a non-negative int to u8
U8(v) == v % 256

\* v | (1 << n)
SetBit(v, n) == IF Bit(v, n) = 1 THEN v ELSE v + Pow2(n)

\* v & ~(1 << n)
ClearBit(v, n) == IF Bit(v, n) = 1 THEN v - Pow2(n) ELSE v

\* v & (2^n - 1)
LowBits(v, n) == v % Pow2(n)

\* v ^ (2^n - 1): the low n bits flipped
FlipLowBits(v, n) == (v \div Pow2(n)) * Pow2(n) + (Pow2(n) - 1 - LowBits(v, n))

(***************************************************************************)
(* The font.  font6x8.h is not among the sources: the catalogue below has  *)
(* the shape the code relies on (glyphs indexed by character code minus    *)
(* ' ', eight rows each, six meaningful bits per row, the block glyph at   *)
(* code 0x80) and gives every glyph a bitmap of its own; the space glyph   *)
(* is blank.                                                               *)
(***************************************************************************)
FontGlyphs == 97

Font6x8 ==
    [c \in 0..(FontGlyphs - 1) |->
        [r \in 0..7 |->
            IF c = 0 THEN 0
            ELSE IF c = FontGlyphs - 1 THEN 63
            ELSE IF r = 0 THEN c % 64
            ELSE IF r = 1 THEN 32 + (c \div 64)
            ELSE (c * (r + 1) + r) % 64]]

RECURSIVE SingleColumnFrom(_, _, _)
SingleColumnFrom(pCharData, bit, i) ==
    IF i = 8 THEN 0
    ELSE Shl(Bit(pCharData[i], bit), i) + SingleColumnFrom(pCharData, bit, i + 1)

\* Collect the bits of column pColumn of the eight rows into one byte.
SingleColumn(pCharData, pColumn) == SingleColumnFrom(pCharData, 5 - pColumn, 0)

RECURSIVE DoubleColumnFrom(_, _)
DoubleColumnFrom(singleColumn, i) ==
    IF i = 8 THEN 0
    ELSE LET bit == Bit(singleColumn, i)
         IN  Shl(bit, i * 2) + Shl(bit, i * 2 + 1) + DoubleColumnFrom(singleColumn, i + 1)

\* Duplicate every bit of the single column into a 16-bit column.
DoubleColumn(pCharData, pColumn) == DoubleColumnFrom(SingleColumn(pCharData, pColumn), 0)

FontSingle == [c \in 0..(FontGlyphs - 1) |-> [j \in 0..5 |-> SingleColumn(Font6x8[c], j)]]
FontDouble == [c \in 0..(FontGlyphs - 1) |-> [j \in 0..5 |-> DoubleColumn(Font6x8[c], j)]]

\* Character codes used by the driver
ChSpace == 32
ChBlock == 128
ChR     == 82
ChOne   == 49

\* static_cast<u8>(pChar - ' ')
GlyphIndex(pChar) == (pChar + 256 - ChSpace) % 256

(***************************************************************************)
(* The init script                                                         *)
(***************************************************************************)
InitSequence ==
    << 174, 129, 127,
       166,
       32, 0, 33, 0, 127, 34, 0, 3,
       161, 168, 31,
       200, 211, 0, 218, 2,
       213, 128, 217, 34, 219, 32,
       141, 20,
       164, 175 >>

CmdControl  == 128
DataControl == 64
DisplayOn   == 175

\* u8 mFramebuffer[128 * 64 / 8 + 1]
FramebufferSize == 1025
FbIndex == 0..(FramebufferSize - 1)

Parts == 0..8

\* static constexpr float VelocityScale = 16.f / 127.f, as a fraction
VelocityScaleNum == 16
VelocityScaleDen == 127

\* Peak hold after a new peak, and the reload between two peak decrements
PeakHoldTime  == 100
PeakDecayTime == 3

\* char mMessageText[]: capacity of the message buffer
MessageTextSize == 21

\* Width of a text row in character cells
RowCells == 20

\* Default arguments of DrawChar and Print (declared in ssd1306.h)
DrawCharInvertedDefault    == FALSE
DrawCharDoubleWidthDefault == FALSE
PrintClearLineDefault      == FALSE
PrintImmediateDefault      == FALSE

(***************************************************************************)
(* State                                                                   *)
(***************************************************************************)
VARIABLES
    mAddress,       \* u8: I2C address of the display
    mHeight,        \* u8: configured height in pixels
    mMessageFlag,   \* bool: a message overlays the status line
    mMessageText,   \* the characters of mMessageText before its terminator
    mPartLevels,    \* u8[9]
    mPeakLevels,    \* u8[9]
    mPeakTimes,     \* u8[9]
    mFramebuffer,   \* u8[FramebufferSize]
    bus,            \* the I2C transactions issued by the last call, in order
    ret,            \* what the last call returned ("void" for a void method)
    lastCall,       \* the last call: its name and arguments
    prevCall,       \* the call before the last one
    overlay,        \* the most recent SetMessage / ClearMessage call
    pre,            \* the object as it was when the last call started
    calls           \* number of calls made so far

vars == << mAddress, mHeight, mMessageFlag, mMessageText, mPartLevels, mPeakLevels,
           mPeakTimes, mFramebuffer, bus, ret, lastCall, prevCall, overlay, pre, calls >>

\* The mutable members of the object
Object ==
    [ fb     |-> mFramebuffer,
      levels |-> mPartLevels,
      peaks  |-> mPeakLevels,
      times  |-> mPeakTimes,
      flag   |-> mMessageFlag,
      text   |-> mMessageText ]

(***************************************************************************)
(* The I2C bus.  CI2CMaster::Write(address, buffer, count) sends the first *)
(* count bytes of buffer as one transaction; ok tells whether it succeeds. *)
(***************************************************************************)
Transaction(address, buffer, count, ok) ==
    [ address |-> address,
      count   |-> count,
      data    |-> [k \in 0..(count - 1) |-> buffer[k]],
      ok      |-> ok ]

I2CWrite(log, address, buffer, count, ok) ==
    Append(log, Transaction(address, buffer, count, ok))

\* The outcome of a call: the members after it, the transactions it issued on the
\* bus and the value it returned.
Outcome(obj, log, value) ==
    [ fb |-> obj.fb, levels |-> obj.levels, peaks |-> obj.peaks, times |-> obj.times,
      flag |-> obj.flag, text |-> obj.text, bus |-> log, ret |-> value ]

\* A function on 1..n as a sequence
AsSeq(f) == SubSeq(f, 1, Len(f))

\* The stores (or transactions) of a loop, in program order, given those of each of
\* its iterations: bodies[k] lists what iteration k does, and every iteration does
\* equally many things.
Iterations(bodies) ==
    IF Len(bodies) = 0 THEN << >>
    ELSE LET body == AsSeq(bodies)
             each == Len(body[1])
         IN  AsSeq([n \in 1..(Len(body) * each) |->
                       body[((n - 1) \div each) + 1][((n - 1) % each) + 1]])

(***************************************************************************)
(* Initialize                                                              *)
(***************************************************************************)
\* for (auto byte : InitSequence) { buffer[1] = byte; Write(mAddress, buffer, 2); }
\* failing: the positions in the script of the writes that the bus fails.
InitWritesShort(failing) ==
    Iterations([k \in 1..(Len(InitSequence) - 1) |->
        LET buffer == [n \in 0..1 |-> IF n = 0 THEN CmdControl ELSE InitSequence[k]]
        IN  I2CWrite(<< >>, mAddress, buffer, 2, k \notin failing)])

InitWritesStopAtFailure(failing) ==
    LET last == IF failing = {} THEN Len(InitSequence)
                ELSE (CHOOSE f \in failing : \A g \in failing : f <= g) - 1
    IN  Iterations([k \in 1..last |->
            LET buffer == [n \in 0..1 |-> IF n = 0 THEN CmdControl ELSE InitSequence[k]]
            IN  I2CWrite(<< >>, mAddress, buffer, 2, k \notin failing)])

InitWrites(failing) ==
    Iterations([k \in 1..Len(InitSequence) |->
        LET buffer == [n \in 0..1 |-> IF n = 0 THEN CmdControl ELSE InitSequence[k]]
        IN  I2CWrite(<< >>, mAddress, buffer, 2, k \notin failing)])

InitializeUnchecked(failing) ==
    Outcome(Object, InitWrites(failing), TRUE)

Initialize(failing) ==
    IF ~(mHeight = 32 \/ mHeight = 64)
    THEN Outcome(Object, << >>, FALSE)
    ELSE Outcome(Object, InitWrites(failing), TRUE)

(***************************************************************************)
(* Framebuffer.  DrawChar and DrawPartLevels are given by the stores they  *)
(* make into mFramebuffer, in program order, as << index, byte >> pairs.   *)
(***************************************************************************)
\* The n-th store of the list writes; past the end of the list, its last store
\* (made again, it changes nothing).
StoreAt(writes, n) == writes[IF n <= Len(writes) THEN n ELSE Len(writes)]

RECURSIVE StoreFrom(_, _, _)
\* fbuf after the stores writes[k], writes[k + 1], ... are made in this order,
\* thirty-two at a time
StoreFrom(fbuf, writes, k) ==
    IF k > Len(writes) THEN fbuf
    ELSE StoreFrom(
         [fbuf EXCEPT ![StoreAt(writes, k + 0)[1]] = StoreAt(writes, k + 0)[2],
                       ![StoreAt(writes, k + 1)[1]] = StoreAt(writes, k + 1)[2],
                       ![StoreAt(writes, k + 2)[1]] = StoreAt(writes, k + 2)[2],
                       ![StoreAt(writes, k + 3)[1]] = StoreAt(writes, k + 3)[2],
                       ![StoreAt(writes, k + 4)[1]] = StoreAt(writes, k + 4)[2],
                       ![StoreAt(writes, k + 5)[1]] = StoreAt(writes, k + 5)[2],
                       ![StoreAt(writes, k + 6)[1]] = StoreAt(writes, k + 6)[2],
                       ![StoreAt(writes, k + 7)[1]] = StoreAt(writes, k + 7)[2],
                       ![StoreAt(writes, k + 8)[1]] = StoreAt(writes, k + 8)[2],
                       ![StoreAt(writes, k + 9)[1]] = StoreAt(writes, k + 9)[2],
                       ![StoreAt(writes, k + 10)[1]] = StoreAt(writes, k + 10)[2],
                       ![StoreAt(writes, k + 11)[1]] = StoreAt(writes, k + 11)[2],
                       ![StoreAt(writes, k + 12)[1]] = StoreAt(writes, k + 12)[2],
                       ![StoreAt(writes, k + 13)[1]] = StoreAt(writes, k + 13)[2],
                       ![StoreAt(writes, k + 14)[1]] = StoreAt(writes, k + 14)[2],
                       ![StoreAt(writes, k + 15)[1]] = StoreAt(writes, k + 15)[2],
                       ![StoreAt(writes, k + 16)[1]] = StoreAt(writes, k + 16)[2],
                       ![StoreAt(writes, k + 17)[1]] = StoreAt(writes, k + 17)[2],
                       ![StoreAt(writes, k + 18)[1]] = StoreAt(writes, k + 18)[2],
                       ![StoreAt(writes, k + 19)[1]] = StoreAt(writes, k + 19)[2],
                       ![StoreAt(writes, k + 20)[1]] = StoreAt(writes, k + 20)[2],
                       ![StoreAt(writes, k + 21)[1]] = StoreAt(writes, k + 21)[2],
                       ![StoreAt(writes, k + 22)[1]] = StoreAt(writes, k + 22)[2],
                       ![StoreAt(writes, k + 23)[1]] = StoreAt(writes, k + 23)[2],
                       ![StoreAt(writes, k + 24)[1]] = StoreAt(writes, k + 24)[2],
                       ![StoreAt(writes, k + 25)[1]] = StoreAt(writes, k + 25)[2],
                       ![StoreAt(writes, k + 26)[1]] = StoreAt(writes, k + 26)[2],
                       ![StoreAt(writes, k + 27)[1]] = StoreAt(writes, k + 27)[2],
                       ![StoreAt(writes, k + 28)[1]] = StoreAt(writes, k + 28)[2],
                       ![StoreAt(writes, k + 29)[1]] = StoreAt(writes, k + 29)[2],
                       ![StoreAt(writes, k + 30)[1]] = StoreAt(writes, k + 30)[2],
                       ![StoreAt(writes, k + 31)[1]] = StoreAt(writes, k + 31)[2]],
         writes, k + 32)

Store(fbuf, writes) == StoreFrom(fbuf, writes, 1)

\* A drawing call in progress: st.fb is mFramebuffer and st.bus the transactions
\* issued so far.
Drawing(fbuf) == [ fb |-> fbuf, bus |-> << >> ]

Draw(st, writes) == [st EXCEPT !.fb = Store(@, writes)]

WriteFramebufferShort(st, ok) ==
    [st EXCEPT !.bus = I2CWrite(@, mAddress, st.fb, mHeight * 16, ok)]

WriteFramebufferRetries(st, ok) ==
    LET once == I2CWrite(st.bus, mAddress, st.fb, mHeight * 16 + 1, ok)
    IN  [st EXCEPT !.bus = IF ok THEN once
                           ELSE I2CWrite(once, mAddress, st.fb, mHeight * 16 + 1, ok)]

\* mI2CMaster->Write(mAddress, mFramebuffer, mHeight * 16 + 1)
WriteFramebuffer(st, ok) ==
    [st EXCEPT !.bus = I2CWrite(@, mAddress, st.fb, mHeight * 16 + 1, ok)]

PixelIndexUnmaskedY(pX, pY) ==
    LET x == LowBits(pX, 7)
        y == pY
    IN  Shl((y \div 8) * 8, 4) + x + 1

\* ((pY & 0xf8) << 4) + pX + 1, after pX &= 0x7f and pY &= 0x3f
PixelIndex(pX, pY) ==
    LET x == LowBits(pX, 7)
        y == LowBits(pY, 6)
    IN  Shl((y \div 8) * 8, 4) + x + 1

\* The bit of the byte: pY & 7, after pY &= 0x3f
PixelBit(pY) == LowBits(LowBits(pY, 6), 3)

\* mFramebuffer[...] |= 1 << (pY & 7)
SetPixel(fbuf, pX, pY) ==
    LET idx == PixelIndex(pX, pY)
    IN  [fbuf EXCEPT ![idx] = U8(SetBit(fbuf[idx], PixelBit(pY)))]

ClearPixelWrongBit(fbuf, pX, pY) ==
    LET idx == PixelIndex(pX, pY)
    IN  [fbuf EXCEPT ![idx] = U8(ClearBit(fbuf[idx], PixelBit(pX)))]

\* mFramebuffer[...] &= ~(1 << (pY & 7))
ClearPixel(fbuf, pX, pY) ==
    LET idx == PixelIndex(pX, pY)
    IN  [fbuf EXCEPT ![idx] = U8(ClearBit(fbuf[idx], PixelBit(pY)))]

ClearFillFromZero(fbuf) ==
    [idx \in FbIndex |-> IF idx >= 0 /\ idx < mHeight * 16 THEN 0 ELSE fbuf[idx]]

\* std::fill(mFramebuffer + 1, mFramebuffer + mHeight * 16 + 1, 0)
ClearFill(fbuf) ==
    [idx \in FbIndex |-> IF idx >= 1 /\ idx < mHeight * 16 + 1 THEN 0 ELSE fbuf[idx]]

(***************************************************************************)
(* Text                                                                    *)
(***************************************************************************)
DrawCharColumnNoMargin(pChar, pCursorX, pCursorY, pInverted, pDoubleWidth, i) ==
    LET rowOffset    == pCursorY * 128 * 2
        columnOffset == pCursorX * (IF pDoubleWidth THEN 12 ELSE 6)
        glyphColumn  == FontDouble[GlyphIndex(pChar)][i]
        fontColumn   == IF i > 0 /\ pInverted THEN FlipLowBits(glyphColumn, 14)
                                              ELSE glyphColumn
        offset       == rowOffset + columnOffset + (IF pDoubleWidth THEN i * 2 ELSE i)
        upper        == LowBits(fontColumn, 8)
        lower        == LowBits(fontColumn \div 256, 8)
    IN  IF pDoubleWidth
        THEN << << offset, upper >>, << offset + 128, lower >>,
                << offset + 1, upper >>, << offset + 128 + 1, lower >> >>
        ELSE << << offset, upper >>, << offset + 128, lower >> >>

\* The stores of iteration i of the loop of DrawChar
DrawCharColumn(pChar, pCursorX, pCursorY, pInverted, pDoubleWidth, i) ==
    LET rowOffset    == pCursorY * 128 * 2
        columnOffset == pCursorX * (IF pDoubleWidth THEN 12 ELSE 6) + 4
        glyphColumn  == FontDouble[GlyphIndex(pChar)][i]
        fontColumn   == IF i > 0 /\ pInverted THEN FlipLowBits(glyphColumn, 14)
                                              ELSE glyphColumn
        offset       == rowOffset + columnOffset + (IF pDoubleWidth THEN i * 2 ELSE i)
        upper        == LowBits(fontColumn, 8)
        lower        == LowBits(fontColumn \div 256, 8)
    IN  IF pDoubleWidth
        \* mFramebuffer[offset + 1] = mFramebuffer[offset], which was just stored,
        \* and likewise 128 further
        THEN << << offset, upper >>, << offset + 128, lower >>,
                << offset + 1, upper >>, << offset + 128 + 1, lower >> >>
        ELSE << << offset, upper >>, << offset + 128, lower >> >>

\* for (u8 i = 0; i < 6; ++i) { ... }
DrawChar(pChar, pCursorX, pCursorY, pInverted, pDoubleWidth) ==
    Iterations([k \in 1..6 |->
        DrawCharColumn(pChar, pCursorX, pCursorY, pInverted, pDoubleWidth, k - 1)])

\* while (*pText && pCursorX < 20) { DrawChar(*pText++, pCursorX, pCursorY); ++pCursorX; }
\* The loop runs once per character of pText for as long as the cursor is in the row;
\* the result is the stores made and the cursor reached.
PrintChars(pText, pCursorX, pCursorY) ==
    LET room  == IF pCursorX < RowCells THEN RowCells - pCursorX ELSE 0
        count == IF Len(pText) < room THEN Len(pText) ELSE room
    IN  [ writes  |-> Iterations([k \in 1..count |->
                          DrawChar(pText[k], pCursorX + (k - 1), pCursorY,
                                   DrawCharInvertedDefault, DrawCharDoubleWidthDefault)]),
          cursorX |-> pCursorX + count ]

\* while (pCursorX < 20) DrawChar(' ', pCursorX++, pCursorY);
ClearLine(pCursorX, pCursorY) ==
    LET count == IF pCursorX < RowCells THEN RowCells - pCursorX ELSE 0
    IN  Iterations([k \in 1..count |->
            DrawChar(ChSpace, pCursorX + (k - 1), pCursorY,
                     DrawCharInvertedDefault, DrawCharDoubleWidthDefault)])

\* CSSD1306::Print
PrintText(st, pText, pCursorX, pCursorY, pClearLine, pImmediate, ok) ==
    LET drawn   == PrintChars(pText, pCursorX, pCursorY)
        cleared == IF pClearLine THEN ClearLine(drawn.cursorX, pCursorY) ELSE << >>
        s1      == Draw(st, drawn.writes \o cleared)
    IN  IF pImmediate THEN WriteFramebuffer(s1, ok) ELSE s1

\* The decimal digits of n < 1000, as characters
Decimal(n) ==
    IF n < 10 THEN << 48 + n >>
    ELSE IF n < 100 THEN << 48 + (n \div 10), 48 + (n % 10) >>
    ELSE << 48 + (n \div 100), 48 + ((n \div 10) % 10), 48 + (n % 10) >>

\* printf's %3d for 0 <= n < 1000: right-aligned in three columns, padded with spaces
Format3d(n) ==
    LET d == Decimal(n)
    IN  [k \in 1..(3 - Len(d)) |-> ChSpace] \o d

\* sprintf(buf, "|vol:%3d", volume)
VolumeText(volume) == << 124, 118, 111, 108, 58 >> \o Format3d(volume)

DrawPartStatesAdjacent(partStates) ==
    Iterations([k \in 1..5 |->
        LET i     == k - 1
            state == Bit(partStates, i) = 1
        IN  DrawChar(IF state THEN ChBlock ELSE ChOne + i, i, 0,
                     DrawCharInvertedDefault, DrawCharDoubleWidthDefault)])

\* for (u8 i = 0; i < 5; ++i) DrawChar(state ? 0x80 : '1' + i, i * 2, 0);
DrawPartStates(partStates) ==
    Iterations([k \in 1..5 |->
        LET i     == k - 1
            state == Bit(partStates, i) = 1
        IN  DrawChar(IF state THEN ChBlock ELSE ChOne + i, i * 2, 0,
                     DrawCharInvertedDefault, DrawCharDoubleWidthDefault)])

DrawStatusLine(st, pSynth, ok) ==
    IF mMessageFlag THEN st
    ELSE LET partStates == pSynth.partStates
             parts  == DrawPartStates(partStates)
             rhythm == DrawChar(IF (partStates \div Pow2(8)) # 0 THEN ChBlock ELSE ChR, 10, 0,
                                DrawCharInvertedDefault, DrawCharDoubleWidthDefault)
         IN  PrintText(Draw(st, parts \o rhythm), VolumeText(pSynth.volume), 12, 0,
                       PrintClearLineDefault, PrintImmediateDefault, ok)

(***************************************************************************)
(* Level meters                                                            *)
(***************************************************************************)
\* --v on a u8
Dec8(v) == (v + 255) % 256

\* floor(VelocityScale * velocity) + 0.5f, converted to u8
VelocityLevel(velocity) == U8((VelocityScaleNum * velocity) \div VelocityScaleDen)

UpdatePartLevelNoReload(level, peak, time, active, velocity) ==
    IF active
    THEN LET newLevel == VelocityLevel(velocity)
         IN  IF newLevel > peak
             THEN [ level |-> newLevel, peak |-> newLevel, time |-> PeakHoldTime ]
             ELSE [ level |-> newLevel, peak |-> peak, time |-> time ]
    ELSE LET newLevel == IF level > 0 THEN level - 1 ELSE level
         IN  IF time = 0 /\ peak > 0
             THEN [ level |-> newLevel, peak |-> peak - 1, time |-> 0 ]
             ELSE [ level |-> newLevel, peak |-> peak, time |-> Dec8(time) ]

UpdatePartLevelUnguardedDecay(level, peak, time, active, velocity) ==
    IF active
    THEN LET newLevel == VelocityLevel(velocity)
         IN  IF newLevel > peak
             THEN [ level |-> newLevel, peak |-> newLevel, time |-> PeakHoldTime ]
             ELSE [ level |-> newLevel, peak |-> peak, time |-> time ]
    ELSE LET newLevel == Dec8(level)
         IN  IF time = 0 /\ peak > 0
             THEN [ level |-> newLevel, peak |-> peak - 1, time |-> PeakDecayTime ]
             ELSE [ level |-> newLevel, peak |-> peak, time |-> Dec8(time) ]

UpdatePartLevelStalePeak(level, peak, time, active, velocity) ==
    IF active
    THEN LET newLevel == VelocityLevel(velocity)
         IN  IF newLevel > peak /\ peak = 0
             THEN [ level |-> newLevel, peak |-> newLevel, time |-> PeakHoldTime ]
             ELSE [ level |-> newLevel, peak |-> peak, time |-> time ]
    ELSE LET newLevel == IF level > 0 THEN level - 1 ELSE level
         IN  IF time = 0 /\ peak > 0
             THEN [ level |-> newLevel, peak |-> peak - 1, time |-> PeakDecayTime ]
             ELSE [ level |-> newLevel, peak |-> peak, time |-> Dec8(time) ]

UpdatePartLevelTimerStalls(level, peak, time, active, velocity) ==
    IF active
    THEN LET newLevel == VelocityLevel(velocity)
         IN  IF newLevel > peak
             THEN [ level |-> newLevel, peak |-> newLevel, time |-> PeakHoldTime ]
             ELSE [ level |-> newLevel, peak |-> peak, time |-> time ]
    ELSE LET newLevel == IF level > 0 THEN level - 1 ELSE level
         IN  IF time = 0 /\ peak > 0
             THEN [ level |-> newLevel, peak |-> peak - 1, time |-> PeakDecayTime ]
             ELSE [ level |-> newLevel, peak |-> peak, time |-> time ]

\* The body of the loop of UpdatePartLevels for one part, given its level, peak
\* and peak time, whether it is playing and its velocity
UpdatePartLevel(level, peak, time, active, velocity) ==
    IF active
    THEN LET newLevel == VelocityLevel(velocity)
         IN  IF newLevel > peak
             THEN [ level |-> newLevel, peak |-> newLevel, time |-> PeakHoldTime ]
             ELSE [ level |-> newLevel, peak |-> peak, time |-> time ]
    ELSE LET newLevel == IF level > 0 THEN level - 1 ELSE level
         IN  IF time = 0 /\ peak > 0
             THEN [ level |-> newLevel, peak |-> peak - 1, time |-> PeakDecayTime ]
             ELSE [ level |-> newLevel, peak |-> peak, time |-> Dec8(time) ]

\* for (u8 i = 0; i < 9; ++i) { ... }: iteration i reads and writes only the
\* entries of part i
UpdatePartLevels(m, pSynth) ==
    LET part == [i \in Parts |->
                    UpdatePartLevel(m.levels[i], m.peaks[i], m.times[i],
                                    Bit(pSynth.partStates, i) = 1, pSynth.velocity[i])]
    IN  [ levels |-> [i \in Parts |-> part[i].level],
          peaks  |-> [i \in Parts |-> part[i].peak],
          times  |-> [i \in Parts |-> part[i].time] ]

\* The two bytes of the bar of a part: the upper page and the lower page
BarTop(level, peak) ==
    LET topVal == IF level > 8 THEN U8(Shl(255, 8 - (level - 8))) ELSE 0
    IN  IF peak > 8 THEN U8(SetBit(topVal, 8 - (peak - 8))) ELSE topVal

BarBottom(level, peak) ==
    LET bottomVal == IF level > 8 THEN 255 ELSE U8(Shl(255, 8 - level))
    IN  IF peak > 8 THEN bottomVal ELSE U8(SetBit(bottomVal, 8 - peak))

DrawBarOnTextPages(i, topVal, bottomVal) ==
    Iterations([k \in 1..12 |->
        LET j == k - 1
        IN  << << i * 14 + j + 3, topVal >>,
               << i * 14 + j + 128 + 3, bottomVal >> >>])

\* for (u8 j = 0; j < 12; ++j) { mFramebuffer[256 + i * 14 + j + 3] = topVal;
\*                               mFramebuffer[256 + i * 14 + j + 128 + 3] = bottomVal; }
DrawBar(i, topVal, bottomVal) ==
    Iterations([k \in 1..12 |->
        LET j == k - 1
        IN  << << 256 + i * 14 + j + 3, topVal >>,
               << 256 + i * 14 + j + 128 + 3, bottomVal >> >>])

\* The stores of DrawPartLevels: for (u8 i = 0; i < 9; ++i) { ... }
DrawPartLevels(levels, peaks) ==
    Iterations([k \in 1..9 |->
        LET i == k - 1
        IN  DrawBar(i, BarTop(levels[i], peaks[i]), BarBottom(levels[i], peaks[i]))])

(***************************************************************************)
(* The public methods, as functions from the current state to an outcome   *)
(***************************************************************************)
\* A null CMT32SynthBase pointer
NullSynth == [ null |-> TRUE ]

Clear(ok) ==
    LET s1 == Drawing(ClearFill(mFramebuffer))
        s2 == WriteFramebuffer(s1, ok)
    IN  Outcome([Object EXCEPT !.fb = s2.fb], s2.bus, "void")

SetMessageAndTransfer(pMessage) ==
    LET n == IF Len(pMessage) < MessageTextSize THEN Len(pMessage) ELSE MessageTextSize
    IN  Outcome([Object EXCEPT !.text = SubSeq(pMessage, 1, n), !.flag = TRUE],
                WriteFramebuffer(Drawing(mFramebuffer), TRUE).bus, "void")

\* strncpy(mMessageText, pMessage, sizeof(mMessageText)), for a message shorter
\* than the buffer: the characters are copied and the rest is filled with NULs.
SetMessage(pMessage) ==
    LET n == IF Len(pMessage) < MessageTextSize THEN Len(pMessage) ELSE MessageTextSize
    IN  Outcome([Object EXCEPT !.text = SubSeq(pMessage, 1, n), !.flag = TRUE],
                << >>, "void")

ClearMessageKeepsFlag ==
    Outcome(Object, << >>, "void")

ClearMessage ==
    Outcome([Object EXCEPT !.flag = FALSE], << >>, "void")

\* Update with a synthesizer: UpdatePartLevels, DrawPartLevels, the message or the
\* status line, WriteFramebuffer
UpdateCycle(pSynth, ok) ==
    LET m  == UpdatePartLevels([ levels |-> mPartLevels, peaks |-> mPeakLevels,
                                 times |-> mPeakTimes ], pSynth)
        s1 == Draw(Drawing(mFramebuffer), DrawPartLevels(m.levels, m.peaks))
        s2 == IF mMessageFlag
              THEN PrintText(s1, mMessageText, 0, 0, TRUE, PrintImmediateDefault, ok)
              ELSE DrawStatusLine(s1, pSynth, ok)
        s3 == WriteFramebuffer(s2, ok)
    IN  Outcome([Object EXCEPT !.fb = s3.fb, !.levels = m.levels,
                               !.peaks = m.peaks, !.times = m.times],
                s3.bus, "void")

UpdateTransfersWithoutSynth(pSynth, ok) ==
    IF pSynth = NullSynth
    THEN Outcome(Object, WriteFramebuffer(Drawing(mFramebuffer), ok).bus, "void")
    ELSE UpdateCycle(pSynth, ok)

Update(pSynth, ok) ==
    IF pSynth = NullSynth THEN Outcome(Object, << >>, "void")
    ELSE UpdateCycle(pSynth, ok)

(***************************************************************************)
(* Inputs                                                                  *)
(***************************************************************************)
\* Heights the object is constructed with.  The constructor only asserts that
\* the height is 32 or 64, so a build without assertions constructs the others.
Heights == {32, 64, 48}

Addresses == {60}

\* mMessageText is not initialised by the constructor: what it holds until the
\* first SetMessage is indeterminate.
UninitialisedTexts == { << >>, << 63 >> }

\* The synthesizer as Update reads it: the part states (bit i: part i is playing,
\* the rhythm part is bit 8), the velocity of each part and the master volume.
Synth(partStates, velocity, volume) ==
    [ partStates |-> partStates,
      velocity   |-> [i \in Parts |-> (velocity + 31 * i) % 128],
      volume     |-> volume ]

\* Part `part` alone is playing, with the given velocity
OnePart(part, velocity) ==
    [ partStates |-> Pow2(part),
      velocity   |-> [i \in Parts |-> IF i = part THEN velocity ELSE 0],
      volume     |-> 100 ]

\* No part is playing
Silent == [ partStates |-> 0, velocity |-> [i \in Parts |-> 0], volume |-> 100 ]

\* Updates: the synthesizer, or none, and whether the bus accepts the transfer
UpdateCalls ==
    { << Synth(0, 0, 100), TRUE >>, << Synth(5, 127, 75), TRUE >>,
      << Synth(258, 64, 0), FALSE >>, << Synth(511, 40, 9), TRUE >>,
      << NullSynth, TRUE >> }

\* Pixel coordinates, in and out of range
PixelCoords == { << 0, 0 >>, << 130, 37 >> }

\* Messages, shorter than the message buffer: "", "Loading..." and 20 characters
Messages ==
    { << >>,
      << 76, 111, 97, 100, 105, 110, 103, 46, 46, 46 >>,
      [k \in 1..20 |-> 64 + k] }

\* The writes of the init script that the bus fails, by position
FailingWrites == { {}, {1}, {7, 30} }

(***************************************************************************)
(* Initial state: the object as the constructor leaves it                  *)
(***************************************************************************)
Init ==
    /\ mAddress \in Addresses
    /\ mHeight \in Heights
    /\ mMessageFlag = FALSE
    /\ mMessageText \in UninitialisedTexts
    /\ mPartLevels = [i \in Parts |-> 0]
    /\ mPeakLevels = [i \in Parts |-> 0]
    /\ mPeakTimes = [i \in Parts |-> 0]
    /\ mFramebuffer = [idx \in FbIndex |-> IF idx = 0 THEN DataControl ELSE 0]
    /\ bus = << >>
    /\ ret = "void"
    /\ lastCall = [ op |-> "CSSD1306" ]
    /\ prevCall = [ op |-> "none" ]
    /\ overlay = [ op |-> "none" ]
    /\ pre = [ fb     |-> mFramebuffer,
               levels |-> mPartLevels,
               peaks  |-> mPeakLevels,
               times  |-> mPeakTimes,
               flag   |-> mMessageFlag,
               text   |-> mMessageText ]
    /\ calls = 0

(***************************************************************************)
(* Calls                                                                   *)
(***************************************************************************)
\* The call `call` runs to completion with outcome out.
Return(call, out) ==
    /\ mFramebuffer' = out.fb
    /\ mPartLevels' = out.levels
    /\ mPeakLevels' = out.peaks
    /\ mPeakTimes' = out.times
    /\ mMessageFlag' = out.flag
    /\ mMessageText' = out.text
    /\ bus' = out.bus
    /\ ret' = out.ret
    /\ lastCall' = call
    /\ prevCall' = lastCall
    /\ pre' = Object
    /\ calls' = calls + 1
    /\ UNCHANGED << mAddress, mHeight >>

CallInitialize(failing) ==
    /\ Return([ op |-> "Initialize", failing |-> failing ], Initialize(failing))
    /\ UNCHANGED overlay

CallSetPixel(pX, pY) ==
    /\ Return([ op |-> "SetPixel", x |-> pX, y |-> pY ],
              Outcome([Object EXCEPT !.fb = SetPixel(mFramebuffer, pX, pY)], << >>, "void"))
    /\ UNCHANGED overlay

CallClearPixel(pX, pY) ==
    /\ Return([ op |-> "ClearPixel", x |-> pX, y |-> pY ],
              Outcome([Object EXCEPT !.fb = ClearPixel(mFramebuffer, pX, pY)], << >>, "void"))
    /\ UNCHANGED overlay

CallClear(ok) ==
    /\ Return([ op |-> "Clear", ok |-> ok ], Clear(ok))
    /\ UNCHANGED overlay

CallSetMessage(pMessage) ==
    /\ Return([ op |-> "SetMessage", message |-> pMessage ], SetMessage(pMessage))
    /\ overlay' = [ op |-> "SetMessage", message |-> pMessage ]

CallClearMessage ==
    /\ Return([ op |-> "ClearMessage" ], ClearMessage)
    /\ overlay' = [ op |-> "ClearMessage" ]

CallUpdate(pSynth, ok) ==
    /\ Return([ op |-> "Update", synth |-> pSynth, ok |-> ok ], Update(pSynth, ok))
    /\ UNCHANGED overlay

Next ==
    /\ calls < MaxCalls
    /\ \/ \E failing \in FailingWrites : CallInitialize(failing)
       \/ \E c \in PixelCoords : CallSetPixel(c[1], c[2])
       \/ \E c \in PixelCoords : CallClearPixel(c[1], c[2])
       \/ \E ok \in BOOLEAN : CallClear(ok)
       \/ \E msg \in Messages : CallSetMessage(msg)
       \/ CallClearMessage
       \/ \E u \in UpdateCalls : CallUpdate(u[1], u[2])

Spec == Init /\ [][Next]_vars

\* The overlay: messages set and cleared between updates
OverlaySynths == { Synth(5, 127, 75), Synth(256, 64, 100) }

NextOverlay ==
    /\ calls < MaxOverlayCalls
    /\ \/ \E msg \in Messages : CallSetMessage(msg)
       \/ CallClearMessage
       \/ \E pSynth \in OverlaySynths : CallUpdate(pSynth, TRUE)

SpecOverlay == Init /\ [][NextOverlay]_vars

\* Pixels set and cleared, on a blank, a drawn and a cleared framebuffer
Pixels == { << 0, 0 >>, << 5, 26 >>, << 127, 63 >>, << 133, 90 >>, << 5, 154 >>, << 255, 7 >> }

NextPixel ==
    /\ calls < MaxPixelCalls
    /\ \/ \E c \in Pixels : CallSetPixel(c[1], c[2])
       \/ \E c \in Pixels : CallClearPixel(c[1], c[2])
       \/ CallClear(TRUE)
       \/ CallUpdate(Synth(511, 127, 100), TRUE)

SpecPixel == Init /\ [][NextPixel]_vars

\* One part plays during the first Update and no part plays afterwards
DecayParts == { 0, 8 }
DecayVelocities == { 8, 64, 127 }

NextDecay ==
    /\ calls < MaxTicks
    /\ \/ /\ calls = 0
          /\ \E part \in DecayParts, velocity \in DecayVelocities :
                 CallUpdate(OnePart(part, velocity), TRUE)
       \/ /\ calls > 0
          /\ CallUpdate(Silent, TRUE)

SpecDecay == Init /\ [][NextDecay]_vars

\* The meters: parts playing and falling silent in any order
MeterSynths ==
    { Synth(0, 0, 100), Synth(341, 127, 100), Synth(170, 64, 100), Synth(511, 3, 100) }

NextMeter ==
    /\ calls < MaxMeterCalls
    /\ \E pSynth \in MeterSynths : CallUpdate(pSynth, TRUE)

SpecMeter == Init /\ [][NextMeter]_vars

\* Parts play or not during the first FadeLeadIn Updates, and no part plays in any
\* Update after them; Update keeps being called
FadeLeadIn == 2

FadeSynths == { Silent, OnePart(0, 127), OnePart(0, 64) }

NextFade ==
    /\ calls < MaxFadeTicks
    /\ \/ /\ calls < FadeLeadIn
          /\ \E pSynth \in FadeSynths : CallUpdate(pSynth, TRUE)
       \/ /\ calls >= FadeLeadIn
          /\ CallUpdate(Silent, TRUE)

\* A step of NextFade, seen on the call counter alone: NextFade can take a step
\* whenever the counter is below its bound, and each of its steps is one call.
FadeCalled == calls < MaxFadeTicks /\ calls' = calls + 1

SpecFade == Init /\ [][NextFade]_vars /\ WF_calls(FadeCalled)

(***************************************************************************)
(* Properties                                                              *)
(***************************************************************************)
Supported == mHeight = 32 \/ mHeight = 64

\* The last call was Update with a synthesizer
Updated == lastCall.op = "Update" /\ lastCall.synth # NullSynth

\* The bytes a framebuffer transfer of fbuf carries
Transfer(fbuf) == [k \in 0..(mHeight * 16) |-> fbuf[k]]

\* The only transaction of the last call is a transfer of fbuf
OneTransfer(fbuf) ==
    /\ Len(bus) = 1
    /\ bus[1].address = mAddress
    /\ bus[1].count = mHeight * 16 + 1
    /\ bus[1].data = Transfer(fbuf)

\* The framebuffer fbuf shows the glyph of character ch in text cell x of row 0:
\* six columns from byte x * 6 + 4 on, the upper half of each glyph column in
\* page 0 and the lower half in page 1
GlyphAt(fbuf, x, ch) ==
    \A i \in 0..5 :
        /\ fbuf[x * 6 + 4 + i] = FontDouble[GlyphIndex(ch)][i] % 256
        /\ fbuf[x * 6 + 4 + i + 128] = FontDouble[GlyphIndex(ch)][i] \div 256

\* The framebuffers f and g show the same in text cell x of row 0
SameCell(f, g, x) ==
    \A i \in 0..5 :
        /\ f[x * 6 + 4 + i] = g[x * 6 + 4 + i]
        /\ f[x * 6 + 4 + i + 128] = g[x * 6 + 4 + i + 128]

\* Row 0 of fbuf shows text from cell 0 on, the rest of its 20 cells blank
RowShows(fbuf, text) ==
    \A x \in 0..19 :
        GlyphAt(fbuf, x, IF x + 1 <= Len(text) THEN text[x + 1] ELSE ChSpace)

\* The character at position k (0..7) of the readout "|vol:NNN" of a volume
ReadoutChar(volume, k) ==
    CASE k = 0 -> 124
      [] k = 1 -> 118
      [] k = 2 -> 111
      [] k = 3 -> 108
      [] k = 4 -> 58
      [] k = 5 -> IF volume >= 100 THEN 48 + (volume \div 100) ELSE 32
      [] k = 6 -> IF volume >= 10 THEN 48 + ((volume \div 10) % 10) ELSE 32
      [] k = 7 -> 48 + (volume % 10)

\* fbuf shows the rhythm indicator of pSynth in cell 10 and the volume readout in
\* cells 12..19
RhythmAndVolumeShown(fbuf, pSynth) ==
    /\ GlyphAt(fbuf, 10, IF Bit(pSynth.partStates, 8) = 1 THEN ChBlock ELSE ChR)
    /\ \A k \in 0..7 : GlyphAt(fbuf, 12 + k, ReadoutChar(pSynth.volume, k))

\* fbuf shows the status line of pSynth, the indicator of melodic part i in cell
\* i * stride
StatusShown(fbuf, pSynth, stride) ==
    /\ \A i \in 0..4 :
           GlyphAt(fbuf, i * stride,
                   IF Bit(pSynth.partStates, i) = 1 THEN ChBlock ELSE ChOne + i)
    /\ RhythmAndVolumeShown(fbuf, pSynth)

\* C1: for the heights 32 and 64, Initialize returns true and issues exactly the
\* bytes of the init script, in order, each once, each as a transaction of the two
\* bytes 0x80 and the command to the configured address; the last command is
\* display-on and nothing else is written.
C1_InitScript ==
    (lastCall.op = "Initialize" /\ Supported) =>
        /\ ret = TRUE
        /\ Len(bus) = Len(InitSequence)
        /\ \A k \in 1..Len(bus) :
               /\ bus[k].address = mAddress
               /\ bus[k].count = 2
               /\ bus[k].data = [n \in 0..1 |-> IF n = 0 THEN 128 ELSE InitSequence[k]]
        /\ bus[Len(bus)].data[1] = DisplayOn

C1_Witness ==
    /\ lastCall.op = "Initialize"
    /\ mHeight = 64
    /\ ret = TRUE
    /\ Len(bus) = Len(InitSequence)

\* C2: if a bus write of Initialize fails, Initialize returns false.
C2_InitFailureSurfaced ==
    (lastCall.op = "Initialize" /\ \E k \in 1..Len(bus) : ~bus[k].ok) => ret = FALSE

\* C3: with a height that is neither 32 nor 64, Initialize returns false, writes
\* nothing on the bus and leaves the framebuffer, the level, peak and timer arrays
\* and the message state as they were.
C3_UnsupportedHeight ==
    (lastCall.op = "Initialize" /\ ~Supported) =>
        /\ ret = FALSE
        /\ bus = << >>
        /\ Object = pre

C3_Witness ==
    /\ lastCall.op = "Initialize"
    /\ ~Supported
    /\ prevCall.op = "Update"
    /\ prevCall.synth # NullSynth
    /\ ret = FALSE

\* C4: an Update with a synthesizer issues exactly one transaction, the transfer of
\* the first height * 16 + 1 bytes of the framebuffer, control byte first, and what
\* it transfers is the framebuffer as the call leaves it (nothing is drawn after
\* the transfer), with a message active as well as with the status line.
C4_OneTransferPerUpdate ==
    Updated =>
        /\ OneTransfer(mFramebuffer)
        /\ bus[1].data[0] = DataControl

C4_Witness ==
    /\ Updated
    /\ mMessageFlag
    /\ Len(mMessageText) > 0
    /\ Len(bus) = 1
    /\ mFramebuffer # pre.fb

\* C5 as amended: in a run where a part plays during the first Update only, the
\* first Update sets its level and peak to the level of its velocity; every later
\* Update lowers the level by 1 until it is 0; the peak is unchanged by the first
\* 100 of the later Updates, and then drops by 1 at the 101st, the 105th, ... later
\* Update (once every 4 Updates) until it is 0.
C5_PeakDecayEveryFour ==
    lastCall.op = "Update" =>
        \A i \in Parts :
            IF calls = 1
            THEN Bit(lastCall.synth.partStates, i) = 1 =>
                     /\ mPartLevels[i] = (16 * lastCall.synth.velocity[i]) \div 127
                     /\ mPeakLevels[i] = mPartLevels[i]
            ELSE LET n == calls - 1
                 IN  /\ mPartLevels[i] = IF pre.levels[i] > 0 THEN pre.levels[i] - 1 ELSE 0
                     /\ mPeakLevels[i] =
                            IF n > 100 /\ (n - 101) % 4 = 0 /\ pre.peaks[i] > 0
                            THEN pre.peaks[i] - 1
                            ELSE pre.peaks[i]

\* C5 as claimed: as above, but the peak drops once every 3 Updates.
C5_PeakDecayEveryThree ==
    lastCall.op = "Update" =>
        \A i \in Parts :
            IF calls = 1
            THEN Bit(lastCall.synth.partStates, i) = 1 =>
                     /\ mPartLevels[i] = (16 * lastCall.synth.velocity[i]) \div 127
                     /\ mPeakLevels[i] = mPartLevels[i]
            ELSE LET n == calls - 1
                 IN  /\ mPartLevels[i] = IF pre.levels[i] > 0 THEN pre.levels[i] - 1 ELSE 0
                     /\ mPeakLevels[i] =
                            IF n > 100 /\ (n - 101) % 3 = 0 /\ pre.peaks[i] > 0
                            THEN pre.peaks[i] - 1
                            ELSE pre.peaks[i]

\* The part that played with level 16 is at its second peak decrement, 105 Updates
\* after the one it played in.
C5_Witness ==
    /\ lastCall.op = "Update"
    /\ calls = 106
    /\ pre.peaks[0] = 15
    /\ mPeakLevels[0] = 14
    /\ mPartLevels[0] = 0

\* C6: an Update shows on row 0 the message, from cell 0 on and the rest of the 20
\* cells blank, if the most recent of the SetMessage and ClearMessage calls was
\* SetMessage; otherwise it shows the status line and draws no message: the cells
\* between the indicators are left as they were.
C6_MessageOrStatus ==
    Updated =>
        IF overlay.op = "SetMessage"
        THEN RowShows(mFramebuffer, overlay.message)
        ELSE /\ StatusShown(mFramebuffer, lastCall.synth, 2)
             /\ \A x \in {1, 3, 5, 7, 9, 11} : SameCell(mFramebuffer, pre.fb, x)

\* The status line is back at the first Update after ClearMessage, the Update
\* before having shown the message "Loading...".
C6_Witness ==
    /\ Updated
    /\ overlay.op = "ClearMessage"
    /\ prevCall.op = "ClearMessage"
    /\ GlyphAt(pre.fb, 0, 76)
    /\ GlyphAt(pre.fb, 12, 32)
    /\ GlyphAt(mFramebuffer, 0, ChBlock)
    /\ GlyphAt(mFramebuffer, 12, 124)

\* C7: after Clear the bytes 1..height * 16 of the framebuffer are 0, byte 0 holds
\* the control value as before, the call has issued one transaction, the transfer
\* of the zeroed framebuffer, and levels, peaks, timers and message are unchanged.
C7_Clear ==
    lastCall.op = "Clear" =>
        /\ \A idx \in 1..(mHeight * 16) : mFramebuffer[idx] = 0
        /\ mFramebuffer[0] = DataControl
        /\ mFramebuffer[0] = pre.fb[0]
        /\ OneTransfer([idx \in FbIndex |-> IF idx = 0 THEN DataControl ELSE 0])
        /\ mPartLevels = pre.levels
        /\ mPeakLevels = pre.peaks
        /\ mPeakTimes = pre.times
        /\ mMessageFlag = pre.flag
        /\ mMessageText = pre.text

C7_Witness ==
    /\ lastCall.op = "Clear"
    /\ prevCall.op = "Update"
    /\ mPartLevels[0] = 16
    /\ pre.fb[4] # 0
    /\ pre.fb[260] # 0
    /\ mFramebuffer[260] = 0

\* The byte of pixel (x, y): page (y mod 64) div 8, column x mod 128
PixelByte(x, y) == (((y % 64) \div 8) * 128) + (x % 128) + 1

\* SetPixel(x, y) was followed by ClearPixel(x, y)
SetThenCleared ==
    /\ lastCall.op = "SetPixel"
    /\ lastCall'.op = "ClearPixel"
    /\ lastCall'.x = lastCall.x
    /\ lastCall'.y = lastCall.y

\* C8 as amended: SetPixel(x, y) followed by ClearPixel(x, y) leaves the byte of
\* the pixel equal to its value before the SetPixel with the bit of the pixel
\* cleared (so equal to that value if the pixel was not lit), and every other byte
\* unchanged.
C8_SetThenClearUnlitPixel ==
    [][SetThenCleared =>
          LET idx == PixelByte(lastCall.x, lastCall.y)
              bit == (lastCall.y % 64) % 8
          IN  mFramebuffer' =
                  [pre.fb EXCEPT ![idx] = IF Bit(@, bit) = 1 THEN @ - Pow2(bit) ELSE @]
      ]_vars

\* C8 as claimed: SetPixel(x, y) followed by ClearPixel(x, y) leaves the byte of the
\* pixel as it was before the SetPixel, and every other byte unchanged.
C8_SetThenClearRestores ==
    [][SetThenCleared => mFramebuffer' = pre.fb]_vars

\* A pixel has been set and cleared again, on a drawn framebuffer.
C8_Witness ==
    /\ prevCall.op = "SetPixel"
    /\ lastCall.op = "ClearPixel"
    /\ lastCall.x = prevCall.x
    /\ lastCall.y = prevCall.y
    /\ calls = 3
    /\ mFramebuffer[260] # 0
    /\ Bit(pre.fb[PixelByte(lastCall.x, lastCall.y)], (lastCall.y % 64) % 8) = 1
    /\ Bit(mFramebuffer[PixelByte(lastCall.x, lastCall.y)], (lastCall.y % 64) % 8) = 0

C10_UpdateNull ==
    (lastCall.op = "Update" /\ lastCall.synth = NullSynth) =>
        /\ bus = << >>
        /\ Object = pre

C10_Witness ==
    /\ lastCall.op = "Update"
    /\ lastCall.synth = NullSynth
    /\ prevCall.op = "Update"
    /\ prevCall.synth # NullSynth
    /\ mPartLevels[0] = 16
    /\ bus = << >>

\* C11 as amended: the init script is 30 command bytes long, and an Initialize
\* that returns true has performed 30 bus transactions.
C11_ThirtyCommands ==
    /\ Len(InitSequence) = 30
    /\ (lastCall.op = "Initialize" /\ ret = TRUE) => Len(bus) = 30

\* C11 as claimed: the init script is 26 command bytes long, and an Initialize
\* that returns true has performed 26 bus transactions.
C11_TwentySixCommands ==
    (lastCall.op = "Initialize" /\ ret = TRUE) =>
        /\ Len(InitSequence) = 26
        /\ Len(bus) = 26

\* Initialize has returned true on a display of height 32, two of its writes
\* having failed.
C11_Witness ==
    /\ lastCall.op = "Initialize"
    /\ lastCall.failing = {7, 30}
    /\ mHeight = 32
    /\ ret = TRUE
    /\ Len(bus) = 30
    /\ bus[27].data[1] = 141

\* C12: after any sequence of Updates, with any parts playing and velocities in
\* 0..127, the level and the peak of each of the 9 parts are in 0..16; a part that
\* does not play and is at level 0 stays at level 0.
C12_LevelsInRange ==
    \A i \in Parts :
        /\ mPartLevels[i] \in 0..16
        /\ mPeakLevels[i] \in 0..16
        /\ (Updated /\ Bit(lastCall.synth.partStates, i) = 0 /\ pre.levels[i] = 0) =>
               mPartLevels[i] = 0

\* Part 0 plays at the top level while part 1, silent and at level 0, stays there.
C12_Witness ==
    /\ Updated
    /\ lastCall.synth.velocity[0] = 127
    /\ mPartLevels[0] = 16
    /\ mPeakLevels[0] = 16
    /\ Bit(lastCall.synth.partStates, 1) = 0
    /\ pre.levels[1] = 0
    /\ mPartLevels[1] = 0
    /\ calls = 3

AsWithSuccessfulWrite(out) ==
    /\ Len(out.bus) = 1
    /\ [out EXCEPT !.bus = << [@[1] EXCEPT !.ok = FALSE] >>] =
           [ fb |-> mFramebuffer', levels |-> mPartLevels', peaks |-> mPeakLevels',
             times |-> mPeakTimes', flag |-> mMessageFlag', text |-> mMessageText',
             bus |-> bus', ret |-> ret' ]

\* C13: an Update or a Clear whose bus write fails makes that one write and no
\* other, and leaves the framebuffer, the levels, peaks and timers and the message
\* as the same call with a successful write does; the Update that follows a
\* failed write issues exactly one transfer, that of its own framebuffer.
C13_FailedWriteIgnored ==
    [][/\ (lastCall'.op = "Update" /\ lastCall'.synth # NullSynth /\ ~lastCall'.ok) =>
              AsWithSuccessfulWrite(Update(lastCall'.synth, TRUE))
       /\ (lastCall'.op = "Clear" /\ ~lastCall'.ok) =>
              AsWithSuccessfulWrite(Clear(TRUE))
       /\ (/\ lastCall.op \in {"Update", "Clear"}
           /\ ~lastCall.ok
           /\ lastCall'.op = "Update"
           /\ lastCall'.synth # NullSynth) =>
              /\ Len(bus') = 1
              /\ bus'[1].count = mHeight * 16 + 1
              /\ bus'[1].data = [k \in 0..(mHeight * 16) |-> mFramebuffer'[k]]
      ]_vars

\* An Update has made its one transfer after an Update whose transfer failed.
C13_Witness ==
    /\ Updated
    /\ prevCall.op = "Update"
    /\ prevCall.synth # NullSynth
    /\ ~prevCall.ok
    /\ Len(bus) = 1
    /\ mFramebuffer # pre.fb

\* The last call left the framebuffer and the meters as they were and wrote
\* nothing on the bus
OnlyMessageTouched ==
    /\ mFramebuffer = pre.fb
    /\ mPartLevels = pre.levels
    /\ mPeakLevels = pre.peaks
    /\ mPeakTimes = pre.times
    /\ bus = << >>

\* C14: Update, Clear, Initialize, SetPixel and ClearPixel leave the message flag
\* and the message text as they were; SetMessage sets the flag and ClearMessage
\* clears it, and neither changes the framebuffer or the meters or writes on the
\* bus.
C14_MessageFlagOwners ==
    /\ lastCall.op \in {"Update", "Clear", "Initialize", "SetPixel", "ClearPixel"} =>
           /\ mMessageFlag = pre.flag
           /\ mMessageText = pre.text
    /\ lastCall.op = "SetMessage" => (mMessageFlag /\ OnlyMessageTouched)
    /\ lastCall.op = "ClearMessage" => (~mMessageFlag /\ OnlyMessageTouched)

\* SetMessage("Loading...") after an Update that drew the status line and a bar.
C14_Witness ==
    /\ lastCall.op = "SetMessage"
    /\ prevCall.op = "Update"
    /\ ~pre.flag
    /\ mMessageFlag
    /\ Len(mMessageText) = 10
    /\ mPartLevels[0] = 16
    /\ GlyphAt(mFramebuffer, 0, ChBlock)

\* C15: byte 0 of the framebuffer holds the control value 0x40 in every reachable
\* state, and every framebuffer transfer starts with it.
C15_ControlByteKept ==
    /\ mFramebuffer[0] = 64
    /\ \A k \in 1..Len(bus) :
           bus[k].count = mHeight * 16 + 1 => bus[k].data[0] = 64

\* An Update has drawn a message that fills the 20 cells of row 0, from cell 0 on,
\* and has transferred the framebuffer.
C15_Witness ==
    /\ Updated
    /\ mMessageFlag
    /\ Len(mMessageText) = 20
    /\ GlyphAt(mFramebuffer, 0, 65)
    /\ mFramebuffer[4] # 0
    /\ Len(bus) = 1
    /\ bus[1].data[0] = 64

\* C17: the peak timer of every part stays within 0..100 in every reachable
\* state.
C17_TimerInRange ==
    \A i \in Parts : mPeakTimes[i] \in 0..100


\* No part plays in any Update from now on (SpecFade)
Quiet == calls >= FadeLeadIn

\* Level and peak of every part are 0
Faded == \A i \in Parts : mPartLevels[i] = 0 /\ mPeakLevels[i] = 0

\* C20: if Update keeps being called and no part plays from some point on, the
\* level and the peak of every part eventually are 0, and once they are 0 they
\* stay 0 for as long as the part does not play.
C20_MetersFade ==
    /\ Quiet ~> Faded
    /\ [][(Quiet /\ Faded) => Faded']_vars

\* The last peak has just decayed to 0, 161 silent Updates after part 0 played at
\* level 16 in the second Update.
C20_Witness ==
    /\ Quiet
    /\ Faded
    /\ pre.peaks[0] = 1
    /\ calls = 163


\* The indices of a list of stores
Indices(writes) == { writes[n][1] : n \in 1..Len(writes) }

\* C18: the stores of an Update are within the bytes 1..512 of the framebuffer,
\* which both supported heights transfer: DrawChar for the cells 0..19 of row 0
\* stores into 1..256 only and DrawPartLevels into 257..512 only, an Update changes
\* no byte outside 1..512, and the bytes 257..512 are after the Update as
\* DrawPartLevels stored them (drawing the text altered no meter byte).
C18_UpdateStoresInRange ==
    Updated =>
        LET meter == DrawPartLevels(mPartLevels, mPeakLevels)
            drawn == Store(pre.fb, meter)
        IN  /\ Indices(meter) \subseteq 257..512
            /\ \A x \in 0..19 :
                   Indices(DrawChar(ChBlock, x, 0, DrawCharInvertedDefault,
                                    DrawCharDoubleWidthDefault)) \subseteq 1..256
            /\ \A idx \in FbIndex :
                   mFramebuffer[idx] # pre.fb[idx] => idx \in 1..512
            /\ \A idx \in 257..512 : mFramebuffer[idx] = drawn[idx]
            /\ Supported => 512 <= mHeight * 16

\* An Update has drawn a message of 20 characters, up to cell 19, and the bar of
\* part 8, up to byte 510.
C18_Witness ==
    /\ Updated
    /\ mMessageFlag
    /\ Len(mMessageText) = 20
    /\ GlyphAt(mFramebuffer, 19, 84)
    /\ mPartLevels[8] > 0
    /\ mFramebuffer[510] # 0
    /\ pre.fb[510] = 0


\* The last call was SetPixel or ClearPixel on a display of a supported height
PixelCalled == lastCall.op \in {"SetPixel", "ClearPixel"} /\ Supported

\* The last call, SetPixel or ClearPixel, has given bit y mod 8 of the byte of its
\* pixel the value of the call and has left every other bit of every byte as it was
OneBitTouched ==
    LET idx == PixelByte(lastCall.x, lastCall.y)
        bit == (lastCall.y % 64) % 8
        lit == Bit(pre.fb[idx], bit) = 1
    IN  mFramebuffer =
            [pre.fb EXCEPT ![idx] =
                IF lastCall.op = "SetPixel"
                THEN (IF lit THEN @ ELSE @ + Pow2(bit))
                ELSE (IF lit THEN @ - Pow2(bit) ELSE @)]

====
